---- MODULE Spec2Model ----
(***************************************************************************)
(* Fuel-moisture data assimilation prototype (openwfm/moisture-            *)
(* assimilation): the run loop of run_spatial_model_v1.py with its two     *)
(* OnlineVarianceEstimator instances and its MeanFieldModel, and the three *)
(* kriging strategies of kriging_methods.py.                               *)
(*                                                                         *)
(* Floating-point values are modelled as exact rationals extended with     *)
(* +inf, -inf and NaN, written <<n, d>>: d > 0 is the fraction n/d in      *)
(* lowest terms, <<1, 0>> is +inf, <<-1, 0>> is -inf and <<0, 0>> is NaN.  *)
(* numpy's default error handling only warns on a division by zero, so     *)
(* x/0 is +-inf and 0/0 is NaN, and NaN propagates through every           *)
(* operation.                                                              *)
(***************************************************************************)
EXTENDS Integers, Sequences, FiniteSets

\* ------------------------------------------------------------------ bounds

\* number of model times, rain.shape[0]; the loop runs t = 1 .. Nt-1
Nt == 3

\* station values range over 0 .. MaxVal
MaxVal == 1

\* ------------------------------------------------------- float arithmetic

Abs(n) == IF n < 0 THEN -n ELSE n

Sgn(n) == IF n > 0 THEN 1 ELSE IF n < 0 THEN -1 ELSE 0

RECURSIVE GCD(_, _)
GCD(a, b) == IF b = 0 THEN a ELSE GCD(b, a % b)

NaN == <<0, 0>>

Zero == <<0, 1>>

One == <<1, 1>>

\* the fraction n/d in lowest terms with a positive denominator
Rat(n, d) ==
    IF d = 0 THEN <<Sgn(n), 0>>
    ELSE LET g == GCD(Abs(n), Abs(d))
         IN  <<(Sgn(d) * n) \div g, Abs(d) \div g>>

Int2Num(n) == <<n, 1>>

IsNaN(x) == x = NaN

IsFinite(x) == x[2] > 0

Neg(x) == <<-x[1], x[2]>>

Add(x, y) ==
    IF IsNaN(x) \/ IsNaN(y) THEN NaN
    ELSE IF ~IsFinite(x) /\ ~IsFinite(y) THEN (IF x = y THEN x ELSE NaN)
    ELSE IF ~IsFinite(x) THEN x
    ELSE IF ~IsFinite(y) THEN y
    ELSE LET g == GCD(x[2], y[2])
             l == (x[2] \div g) * y[2]
         IN  Rat(x[1] * (l \div x[2]) + y[1] * (l \div y[2]), l)

Sub(x, y) == Add(x, Neg(y))

Mul(x, y) ==
    IF IsNaN(x) \/ IsNaN(y) THEN NaN
    ELSE IF ~IsFinite(x) \/ ~IsFinite(y)
         THEN (IF x[1] = 0 \/ y[1] = 0 THEN NaN ELSE <<Sgn(x[1]) * Sgn(y[1]), 0>>)
    ELSE IF x[1] = 0 \/ y[1] = 0 THEN Zero
    ELSE LET g1 == GCD(Abs(x[1]), y[2])
             g2 == GCD(Abs(y[1]), x[2])
         IN  <<(x[1] \div g1) * (y[1] \div g2), (x[2] \div g2) * (y[2] \div g1)>>

\* 1 / x
Recip(x) ==
    IF IsNaN(x) THEN NaN
    ELSE IF ~IsFinite(x) THEN Zero
    ELSE IF x[1] = 0 THEN <<1, 0>>
    ELSE <<Sgn(x[1]) * x[2], Abs(x[1])>>

Div(x, y) == Mul(x, Recip(y))

\* x < y; every comparison with NaN is false
Lt(x, y) ==
    /\ ~IsNaN(x)
    /\ ~IsNaN(y)
    /\ x # y
    /\ IF ~IsFinite(x) THEN x[1] < 0
       ELSE IF ~IsFinite(y) THEN y[1] > 0
       ELSE x[1] * y[2] < y[1] * x[2]

\* x >= y
Geq(x, y) == ~IsNaN(x) /\ ~IsNaN(y) /\ ~Lt(x, y)

AbsNum(x) == <<Abs(x[1]), x[2]>>

\* x ** 0.5 at the model's resolution: the least integer whose square is >= x;
\* NaN for NaN and for a negative x
Sqrt(x) ==
    IF IsNaN(x) \/ x[1] < 0 THEN NaN
    ELSE IF ~IsFinite(x) THEN x
    ELSE Int2Num(CHOOSE k \in 0 .. x[1] :
                    /\ k * k * x[2] >= x[1]
                    /\ (k = 0 \/ (k - 1) * (k - 1) * x[2] < x[1]))

\* sum of v[1] .. v[n]
RECURSIVE SumTo(_, _)
SumTo(v, n) == IF n = 0 THEN Zero ELSE Add(SumTo(v, n - 1), v[n])

Dot(u, v, n) == SumTo([k \in 1 .. n |-> Mul(u[k], v[k])], n)

\* ------------------------------------------------------ grid and stations

\* the model grid, np.ndindex(dom_shape) flattened
Grid == 1 .. 2

\* grid points lie 50 km apart on one meridian; a position is its km mark
GridKm(p) == 50 * (p - 1)

\* great-circle distance in km of two positions on that meridian
great_circle_distance(a, b) == Abs(a - b)

\* max(0.8565 - 0.0063 * d, 0.0)
Correlation(d) ==
    LET v == Sub(Rat(8565, 10000), Mul(Rat(63, 10000), Int2Num(d)))
    IN  IF Lt(v, Zero) THEN Zero ELSE v

\* C[i][j] = correlation(distance(station_i, station_j))
construct_spatial_correlation_matrix2(station_lonlat) ==
    [i \in 1 .. Len(station_lonlat) |->
        [j \in 1 .. Len(station_lonlat) |->
            Correlation(great_circle_distance(station_lonlat[i], station_lonlat[j]))]]

\* the station list, reduced to its first station, 10 km from grid point 1
station_list == <<"Julian_Moisture">>

StationKm == <<10>>

StationCell == <<1>>

\* s.set_measurement_variance('fuel_moisture', 0.1)
MeasurementVariance == Rat(1, 10)

\* an observation of station s with value v
Observation(s, v) ==
    [value |-> Int2Num(v), measV |-> MeasurementVariance,
     pos |-> StationKm[s], ngp |-> StationCell[s]]

\* equilibrium fields over the grid, with values 0 and 1
Fields == [Grid -> {Int2Num(v) : v \in 0 .. 1}]

\* the mid-fuel state of the cell models after advance_model, one of two fields
FuelFields == {[p \in Grid |-> Int2Num(v)] : v \in 0 .. 1}

\* the observations of one model time: one per station, values 0 .. MaxVal
ObsLists ==
    {[s \in 1 .. Len(station_list) |-> Observation(s, v[s])] :
        v \in [1 .. Len(station_list) -> 0 .. MaxVal]}

\* ------------------------------------------------ OnlineVarianceEstimator

\* OnlineVarianceEstimator(imean, ivar, iN)
OnlineVarianceEstimator(imean, ivar, iN) == [mean |-> imean, M2 |-> ivar, N |-> iN]

\* an update_with that forgets "N += 1": the sample count stays at its seed
update_with_keeps_count(est, ndata) ==
    LET delta == [i \in DOMAIN est.mean |-> Sub(ndata[i], est.mean[i])]
        mean1 == [i \in DOMAIN est.mean |-> Add(est.mean[i], Div(delta[i], Int2Num(est.N)))]
    IN  [mean |-> mean1,
         M2   |-> [i \in DOMAIN est.mean |->
                      Add(est.M2[i], Mul(delta[i], Sub(ndata[i], mean1[i])))],
         N    |-> est.N]

\* N += 1; delta = ndata - mean; mean += delta / N; M2 += delta * (ndata - mean)
update_with(est, ndata) ==
    LET N1    == est.N + 1
        delta == [i \in DOMAIN est.mean |-> Sub(ndata[i], est.mean[i])]
        mean1 == [i \in DOMAIN est.mean |-> Add(est.mean[i], Div(delta[i], Int2Num(N1)))]
    IN  [mean |-> mean1,
         M2   |-> [i \in DOMAIN est.mean |->
                      Add(est.M2[i], Mul(delta[i], Sub(ndata[i], mean1[i])))],
         N    |-> N1]

\* M2 / (N - 1)
get_variance(est) == [i \in DOMAIN est.M2 |-> Div(est.M2[i], Int2Num(est.N - 1))]

\* --------------------------------------------------------- MeanFieldModel

\* np.sum(weights * modv ** 2) with unit weights
FitDenominator(E, obs_list) ==
    SumTo([k \in 1 .. Len(obs_list) |->
              Mul(One, Mul(E[obs_list[k].ngp], E[obs_list[k].ngp]))], Len(obs_list))

\* np.sum(weights * modv * obsv) with unit weights
FitNumerator(E, obs_list) ==
    SumTo([k \in 1 .. Len(obs_list) |->
              Mul(Mul(One, E[obs_list[k].ngp]), obs_list[k].value)], Len(obs_list))

\* the gamma that fit_to_data stores
fit_to_data(E, obs_list) == Div(FitNumerator(E, obs_list), FitDenominator(E, obs_list))

\* a predict_field that returns the background field without scaling it
predict_field_unscaled(g, E) == [p \in Grid |-> E[p]]

\* self.gamma * E
predict_field(g, E) == [p \in Grid |-> Mul(g, E[p])]

\* ------------------------------------------------------------- np.linalg

\* determinant of a matrix of order 1 or 2
Det(M, n) ==
    IF n = 1 THEN M[1][1]
    ELSE Sub(Mul(M[1][1], M[2][2]), Mul(M[1][2], M[2][1]))

\* np.linalg.inv raises LinAlgError for a singular matrix; the empty matrix
\* makes inv (older numpy) or the following cond (newer numpy) raise it
LinAlgError(M, n) == n = 0 \/ Det(M, n) = Zero

\* np.linalg.inv of a nonsingular matrix of order 1 or 2
inv(M, n) ==
    IF n = 1 THEN <<<<Recip(M[1][1])>>>>
    ELSE LET d == Det(M, n)
         IN  << <<Div(M[2][2], d), Div(Neg(M[1][2]), d)>>,
                <<Div(Neg(M[2][1]), d), Div(M[1][1], d)>> >>

\* Sigma = oS.T * C * oS + np.diag(measV)
Sigma(obs_data_t, obs_stds) ==
    LET n == Len(obs_data_t)
        C == construct_spatial_correlation_matrix2([k \in 1 .. n |-> obs_data_t[k].pos])
    IN  [i \in 1 .. n |-> [j \in 1 .. n |->
            Add(Mul(Mul(obs_stds[i], C[i][j]), obs_stds[j]),
                IF i = j THEN obs_data_t[i].measV ELSE Zero)]]

\* cov[k] = mod_stds[p] * cc * obs_stds[k]
Cov(obs_data_t, obs_stds, mod_stds, p) ==
    [k \in 1 .. Len(obs_data_t) |->
        Mul(Mul(mod_stds[p],
                Correlation(great_circle_distance(GridKm(p), obs_data_t[k].pos))),
            obs_stds[k])]

\* ------------------------------------------------------- kriging_methods

\* simple_kriging_data_to_model: what it raises, how often it pushed
\* "skdm_cov_cond", and the fields K and V it returns
simple_kriging_data_to_model(obs_data_t, obs_stds, mu_mod, mod_stds) ==
    LET Nobs    == Len(obs_data_t)
        res_obs == [k \in 1 .. Nobs |->
                       Sub(obs_data_t[k].value, mu_mod[obs_data_t[k].ngp])]
        Sig     == Sigma(obs_data_t, obs_stds)
    IN  IF LinAlgError(Sig, Nobs)
        THEN [raised |-> "LinAlgError", pushes |-> 0, K |-> <<>>, V |-> <<>>]
        ELSE LET SigInv == inv(Sig, Nobs)
                 cov(p) == Cov(obs_data_t, obs_stds, mod_stds, p)
                 csi(p) == [j \in 1 .. Nobs |->
                               SumTo([k \in 1 .. Nobs |-> Mul(cov(p)[k], SigInv[k][j])], Nobs)]
             IN  [raised |-> "none", pushes |-> 1,
                  K |-> [p \in Grid |-> Add(mu_mod[p], Dot(csi(p), res_obs, Nobs))],
                  V |-> [p \in Grid |->
                            Sub(Mul(mod_stds[p], mod_stds[p]), Dot(csi(p), cov(p), Nobs))]]

\* universal_kriging_data_to_model: what it raises, how often it pushed
\* "skdm_cov_cond", and the gamma and mape it returns (the fields K and V of
\* lines 116-134 are not part of the model)
universal_kriging_data_to_model(obs_data_t, obs_stds, m, mod_stds) ==
    LET Nobs     == Len(obs_data_t)
        obs_vals == [k \in 1 .. Nobs |-> obs_data_t[k].value]
        m_pred   == [k \in 1 .. Nobs |-> m[obs_data_t[k].ngp]]
        Sig      == Sigma(obs_data_t, obs_stds)
    IN  IF LinAlgError(Sig, Nobs)
        THEN [raised |-> "LinAlgError", pushes |-> 0]
        ELSE LET SigInv == inv(Sig, Nobs)
                 \* SigInv * v
                 SigInvTimes(v) ==
                     [i \in 1 .. Nobs |->
                         SumTo([j \in 1 .. Nobs |-> Mul(SigInv[i][j], v[j])], Nobs)]
                 mSm == <<<<Dot(m_pred, SigInvTimes(m_pred), Nobs)>>>>
             IN  IF LinAlgError(mSm, 1)
                 THEN [raised |-> "LinAlgError", pushes |-> 0]
                 ELSE LET g      == Mul(inv(mSm, 1)[1][1],
                                        Dot(m_pred, SigInvTimes(obs_vals), Nobs))
                          mu_mod == [p \in Grid |-> Mul(m[p], g)]
                          mu_obs == [k \in 1 .. Nobs |-> mu_mod[obs_data_t[k].ngp]]
                          \* the column obs_vals minus the 1-d array mu_obs
                          \* broadcasts to Nobs x Nobs
                          res_obs == [i \in 1 .. Nobs |-> [j \in 1 .. Nobs |->
                                         Sub(obs_vals[i], mu_obs[j])]]
                          total  == SumTo([i \in 1 .. Nobs |->
                                        SumTo([j \in 1 .. Nobs |-> AbsNum(res_obs[i][j])],
                                              Nobs)], Nobs)
                      IN  [raised |-> "none", pushes |-> 1, gamma |-> g,
                           mape |-> Div(total, Int2Num(Nobs * Nobs))]

\* trend_surface_model_kriging: what it raises, how often it pushed
\* "skdm_cov_cond", and the fields K and V it returns
trend_surface_model_kriging(obs_data_t, mu_mod) ==
    LET Nobs   == Len(obs_data_t)
        mu_obs == [k \in 1 .. Nobs |-> mu_mod[obs_data_t[k].ngp]]
    IN  IF Nobs = 0
        THEN [raised |-> "IndexError", pushes |-> 0, K |-> <<>>, V |-> <<>>]
        ELSE LET sigma2 == obs_data_t[1].measV
                 XtX_1  == Div(One, Dot(mu_obs, mu_obs, Nobs))
             IN  [raised |-> "none", pushes |-> 1,
                  K |-> [p \in Grid |-> mu_mod[p]],
                  V |-> [p \in Grid |->
                            Mul(sigma2, Add(One, Mul(Mul(mu_mod[p], XtX_1), mu_mod[p])))]]

\* ------------------------------------------------------------- run_module

VARIABLES
    t,            \* loop variable of "for t in range(1, Nt)"
    pc,           \* position of run_module inside the loop body
    Eavg,         \* 0.5 * (Ed[t] + Ew[t]) for each model time, from wrf_data
    obs_data,     \* observations indexed by the model times that have some
    E,            \* equilibrium field of the current step
    f,            \* mid-fuel state of the cell models, f[:,:,1]
    gamma,        \* mfm.gamma
    Efit,         \* mfm.predict_field(E)
    mod_re,       \* model residual variance estimator
    obs_re,       \* observation residual variance estimator
    mresV,        \* mod_re.get_variance()
    K,            \* kriged field
    V,            \* kriging variance
    pos,          \* loop variable of the Kalman update loop
    calls,        \* the calls made so far in the current step, in order
    reads,        \* every get_variance() call so far: the estimator and its N
    kalman_calls, \* the arguments of the kalman_update calls of the current step
    pushed,       \* diagnostics().push calls so far, per tag
    gamma_prev    \* mfm.gamma when the current step began

VARIABLES
    k_pc,         \* "ready" before a kriging strategy is called, "done" after
    k_fn,         \* the strategy called
    k_obs,        \* its observation list
    k_obs_stds,   \* its obs_stds
    k_field,      \* its mu_mod (simple, trend surface) or covariate m (universal)
    k_mod_stds,   \* its mod_stds
    k_res         \* what the call raised, pushed and returned

runVars == <<t, pc, Eavg, obs_data, E, f, gamma, Efit, mod_re, obs_re, mresV, K, V,
             pos, calls, reads, kalman_calls, pushed, gamma_prev>>

krigingVars == <<k_pc, k_fn, k_obs, k_obs_stds, k_field, k_mod_stds, k_res>>

vars == <<runVars, krigingVars>>

Tags == {"mfm_gamma", "mfm_res_avg", "skdm_cov_cond"}

ZeroField == [p \in Grid |-> Zero]

\* model_time in obs_data
HasObs(tt) == tt \in DOMAIN obs_data

\* a step that never fits the mean field model
AfterBegin_never_fits(tt) == "predict"

\* line 161: the mean field model is fitted first when the step has observations
AfterBegin(tt) == IF HasObs(tt) THEN "fit" ELSE "predict"

\* line 174: kriging and the Kalman update run when the step has observations
AfterModUpdate(tt) == IF HasObs(tt) THEN "krige" ELSE "render"

\* no kriging strategy is called on its own during a run
KrigingIdle ==
    /\ k_pc = "idle"
    /\ k_fn = "none"
    /\ k_obs = <<>>
    /\ k_obs_stds = <<>>
    /\ k_field = ZeroField
    /\ k_mod_stds = ZeroField
    /\ k_res = [raised |-> "none", pushes |-> 0]

Init ==
    /\ t = 1
    /\ pc = "begin"
    /\ Eavg \in [1 .. Nt - 1 -> Fields]
    /\ obs_data \in UNION {[D -> ObsLists] : D \in SUBSET (1 .. Nt - 1)}
    /\ E = Eavg[1]
    /\ f = ZeroField
    /\ gamma = One
    /\ Efit = ZeroField
    /\ mod_re = OnlineVarianceEstimator(ZeroField, [p \in Grid |-> Rat(3, 100)], 1)
    /\ obs_re = OnlineVarianceEstimator([s \in 1 .. Len(station_list) |-> Zero],
                                        [s \in 1 .. Len(station_list) |-> Rat(1, 10)], 1)
    /\ mresV = ZeroField
    /\ K = ZeroField
    /\ V = ZeroField
    /\ pos = 1
    /\ calls = <<>>
    /\ reads = {}
    /\ kalman_calls = <<>>
    /\ pushed = [tag \in Tags |-> 0]
    /\ gamma_prev = One
    /\ KrigingIdle

\* lines 143-158: the equilibrium of the step and the advanced cell models
StepBegin ==
    /\ pc = "begin"
    /\ E' = Eavg[t]
    /\ f' \in FuelFields
    /\ calls' = <<>>
    /\ kalman_calls' = <<>>
    /\ gamma_prev' = gamma
    /\ pc' = AfterBegin(t)
    /\ UNCHANGED <<t, Eavg, obs_data, gamma, Efit, mod_re, obs_re, mresV, K, V, pos,
                   reads, pushed>>

\* line 162: mfm.fit_to_data(E, obs_data[model_time])
FitToData ==
    /\ pc = "fit"
    /\ gamma' = fit_to_data(E, obs_data[t])
    /\ pushed' = [pushed EXCEPT !["mfm_gamma"] = @ + 1, !["mfm_res_avg"] = @ + 1]
    /\ calls' = Append(calls, "fit_to_data")
    /\ pc' = "obs_update"
    /\ UNCHANGED <<t, Eavg, obs_data, E, f, Efit, mod_re, obs_re, mresV, K, V, pos,
                   reads, kalman_calls, gamma_prev>>

\* lines 163-165: obs_re.update_with(obs_vals - ngp_vals)
ObsReUpdate ==
    /\ pc = "obs_update"
    /\ obs_re' = update_with(obs_re,
                     [s \in 1 .. Len(obs_data[t]) |->
                         Sub(obs_data[t][s].value, E[obs_data[t][s].ngp])])
    /\ calls' = Append(calls, "obs_re.update_with")
    /\ pc' = "predict"
    /\ UNCHANGED <<t, Eavg, obs_data, E, f, gamma, Efit, mod_re, mresV, K, V, pos,
                   reads, kalman_calls, pushed, gamma_prev>>

\* line 167: Efit = mfm.predict_field(E)
PredictField ==
    /\ pc = "predict"
    /\ Efit' = predict_field(gamma, E)
    /\ calls' = Append(calls, "predict_field")
    /\ pc' = "mod_update"
    /\ UNCHANGED <<t, Eavg, obs_data, E, f, gamma, mod_re, obs_re, mresV, K, V, pos,
                   reads, kalman_calls, pushed, gamma_prev>>

\* lines 170-171: mod_re.update_with(f[:,:,1] - Efit); mresV = mod_re.get_variance()
ModReUpdate ==
    /\ pc = "mod_update"
    /\ mod_re' = update_with(mod_re, [p \in Grid |-> Sub(f[p], Efit[p])])
    /\ mresV' = get_variance(mod_re')
    /\ reads' = reads \cup {[est |-> "mod_re", N |-> mod_re'.N]}
    /\ calls' = Append(calls, "mod_re.update_with")
    /\ pc' = AfterModUpdate(t)
    /\ UNCHANGED <<t, Eavg, obs_data, E, f, gamma, Efit, obs_re, K, V, pos,
                   kalman_calls, pushed, gamma_prev>>

\* lines 177-178: K, V = simple_kriging_data_to_model(obs_data[model_time],
\* obs_re.get_variance() ** 0.5, Efit, wrf_data, mresV ** 0.5, t); an exception
\* it raises leaves run_module, which catches none
Krige ==
    /\ pc = "krige"
    /\ LET obs_stds == [s \in DOMAIN obs_re.M2 |-> Sqrt(get_variance(obs_re)[s])]
           mod_stds == [p \in Grid |-> Sqrt(mresV[p])]
           r == simple_kriging_data_to_model(obs_data[t], obs_stds, Efit, mod_stds)
       IN  /\ pushed' = [pushed EXCEPT !["skdm_cov_cond"] = @ + r.pushes]
           /\ IF r.raised = "none"
              THEN /\ K' = r.K
                   /\ V' = r.V
                   /\ pc' = "kalman"
              ELSE /\ UNCHANGED <<K, V>>
                   /\ pc' = "aborted"
    /\ reads' = reads \cup {[est |-> "obs_re", N |-> obs_re.N]}
    /\ calls' = Append(calls, "simple_kriging_data_to_model")
    /\ pos' = 1
    /\ UNCHANGED <<t, Eavg, obs_data, E, f, gamma, Efit, mod_re, obs_re, mresV,
                   kalman_calls, gamma_prev>>

\* lines 182-183: Kg[pos] = models[pos].kalman_update(K[pos], V[pos], 1)
KalmanUpdate ==
    /\ pc = "kalman"
    /\ kalman_calls' = Append(kalman_calls, [pos |-> pos, K |-> K[pos], V |-> V[pos]])
    /\ calls' = Append(calls, "kalman_update")
    /\ pos' = pos + 1
    /\ pc' = IF pos + 1 \in Grid THEN "kalman" ELSE "render"
    /\ UNCHANGED <<t, Eavg, obs_data, E, f, gamma, Efit, mod_re, obs_re, mresV, K, V,
                   reads, pushed, gamma_prev>>

\* lines 185-227: the step is rendered and the loop goes on to the next time
EndStep ==
    /\ pc = "render"
    /\ t' = t + 1
    /\ pc' = IF t + 1 < Nt THEN "begin" ELSE "done"
    /\ UNCHANGED <<Eavg, obs_data, E, f, gamma, Efit, mod_re, obs_re, mresV, K, V, pos,
                   calls, reads, kalman_calls, pushed, gamma_prev>>

Next ==
    /\ \/ StepBegin
       \/ FitToData
       \/ ObsReUpdate
       \/ PredictField
       \/ ModReUpdate
       \/ Krige
       \/ KalmanUpdate
       \/ EndStep
    /\ UNCHANGED krigingVars

Spec == Init /\ [][Next]_vars

\* ----------------------------------------- the kriging strategies, called alone

\* an observation with value v and measurement variance mv whose station lies
\* 10 km from its nearest grid point c
StationObservation(v, mv, c) ==
    [value |-> Int2Num(v), measV |-> mv, pos |-> GridKm(c) + 10, ngp |-> c]

ObservationInputs ==
    {StationObservation(v, mv, c) :
        v \in 0 .. 2, mv \in {Zero, MeasurementVariance}, c \in Grid}

\* observation lists of length 0, 1 and 2
ObservationListInputs ==
    {<<>>} \cup {<<o>> : o \in ObservationInputs}
           \cup {<<o1, o2>> : o1 \in ObservationInputs, o2 \in ObservationInputs}

\* standard deviations 0 and 1
StdInputs == {Zero, One}

\* run_module stands before its loop while a strategy is called alone
RunIdle ==
    /\ t = 1
    /\ pc = "idle"
    /\ Eavg = [tt \in 1 .. Nt - 1 |-> ZeroField]
    /\ obs_data = <<>>
    /\ E = ZeroField
    /\ f = ZeroField
    /\ gamma = One
    /\ Efit = ZeroField
    /\ mod_re = OnlineVarianceEstimator(ZeroField, [p \in Grid |-> Rat(3, 100)], 1)
    /\ obs_re = OnlineVarianceEstimator([s \in 1 .. Len(station_list) |-> Zero],
                                        [s \in 1 .. Len(station_list) |-> Rat(1, 10)], 1)
    /\ mresV = ZeroField
    /\ K = ZeroField
    /\ V = ZeroField
    /\ pos = 1
    /\ calls = <<>>
    /\ reads = {}
    /\ kalman_calls = <<>>
    /\ pushed = [tag \in Tags |-> 0]
    /\ gamma_prev = One

InitKriging ==
    /\ RunIdle
    /\ k_pc = "ready"
    /\ k_fn = "none"
    /\ k_obs \in ObservationListInputs
    /\ k_obs_stds \in [1 .. Len(k_obs) -> StdInputs]
    /\ k_field \in Fields
    /\ k_mod_stds \in [Grid -> StdInputs]
    /\ k_res = [raised |-> "none", pushes |-> 0]

\* K, V = simple_kriging_data_to_model(k_obs, k_obs_stds, k_field, wrf_data,
\* k_mod_stds, t), for at most one observation
CallSimpleKriging ==
    /\ k_pc = "ready"
    /\ Len(k_obs) \in {0, 1}
    /\ k_fn' = "simple"
    /\ k_res' = simple_kriging_data_to_model(k_obs, k_obs_stds, k_field, k_mod_stds)
    /\ k_pc' = "done"
    /\ UNCHANGED <<k_obs, k_obs_stds, k_field, k_mod_stds>>

\* K, V, gamma, mape = universal_kriging_data_to_model(k_obs, k_obs_stds, k_field,
\* wrf_data, k_mod_stds, t)
CallUniversalKriging ==
    /\ k_pc = "ready"
    /\ k_fn' = "universal"
    /\ k_res' = universal_kriging_data_to_model(k_obs, k_obs_stds, k_field, k_mod_stds)
    /\ k_pc' = "done"
    /\ UNCHANGED <<k_obs, k_obs_stds, k_field, k_mod_stds>>

\* K, V = trend_surface_model_kriging(k_obs, wrf_data, k_field)
CallTrendSurfaceKriging ==
    /\ k_pc = "ready"
    /\ k_fn' = "trend_surface"
    /\ k_res' = trend_surface_model_kriging(k_obs, k_field)
    /\ k_pc' = "done"
    /\ UNCHANGED <<k_obs, k_obs_stds, k_field, k_mod_stds>>

NextKriging ==
    /\ \/ CallSimpleKriging
       \/ CallUniversalKriging
       \/ CallTrendSurfaceKriging
    /\ UNCHANGED runVars

SpecKriging == InitKriging /\ [][NextKriging]_vars

\* ------------------------------------------------- properties of run_module

\* C1: both estimators, mod_re and obs_re, have N >= 1 in every reachable
\* state, and every get_variance() call reads an estimator whose N is >= 2
C1_VarianceReadAfterUpdate ==
    /\ mod_re.N >= 1
    /\ obs_re.N >= 1
    /\ \A r \in reads : r.N >= 2

\* both estimators have been read, after a step without observations
C1_BothEstimatorsRead ==
    /\ [est |-> "obs_re", N |-> obs_re.N] \in reads
    /\ [est |-> "mod_re", N |-> mod_re.N] \in reads
    /\ mod_re.N > obs_re.N

\* C2: in a step without observations the mean field model is not fitted,
\* simple_kriging_data_to_model is not called, no kalman_update is made, and
\* the field of the step is the background E scaled by the gamma fitted earlier
C2_NoObservationsNoKriging ==
    (~HasObs(t) /\ pc \in {"fit", "obs_update", "predict", "mod_update", "krige",
                           "kalman", "render", "aborted"}) =>
        /\ pc \in {"predict", "mod_update", "render"}
        /\ \A i \in 1 .. Len(calls) :
               calls[i] \notin {"fit_to_data", "obs_re.update_with",
                                "simple_kriging_data_to_model", "kalman_update"}
        /\ kalman_calls = <<>>
        /\ gamma = gamma_prev
        /\ pc \in {"mod_update", "render"} => Efit = [p \in Grid |-> Mul(gamma_prev, E[p])]

\* a step without observations has finished with a gamma fitted in an earlier
\* step that differs from the initial 1.0, on a background that is not all zero
C2_ScaledBackgroundUsed ==
    /\ ~HasObs(t)
    /\ pc = "render"
    /\ gamma # One
    /\ ~IsNaN(gamma)
    /\ \E p \in Grid : E[p] # Zero

\* C3: a zero denominator in the mean-field fit or a singular Sigma in the
\* kriging call does not end the run, and the step it happens in makes no
\* kriging call and no kalman_update
C3_NumericFailureSkipsStep ==
    /\ pc # "aborted"
    /\ (/\ HasObs(t)
        /\ pc \in {"obs_update", "predict", "mod_update", "krige", "kalman", "render"}
        /\ FitDenominator(E, obs_data[t]) = Zero) =>
           /\ \A i \in 1 .. Len(calls) :
                  calls[i] \notin {"simple_kriging_data_to_model", "kalman_update"}
           /\ kalman_calls = <<>>

\* C4: after fit_to_data with sum(w_i * m_i^2) = 0 gamma has the value it had
\* before the call, and a later predict_field returns that gamma times E
C4_DegenerateFitKeepsGamma ==
    (/\ HasObs(t)
     /\ pc \in {"obs_update", "predict", "mod_update", "krige", "kalman", "render"}
     /\ FitDenominator(E, obs_data[t]) = Zero) =>
        /\ gamma = gamma_prev
        /\ pc \in {"mod_update", "krige", "kalman", "render"} =>
               Efit = [p \in Grid |-> Mul(gamma_prev, E[p])]

\* C8: every V[p] that run_module passes to kalman_update is >= 0
C8_NoNegativeVarianceToKalman ==
    \A i \in 1 .. Len(kalman_calls) : Geq(kalman_calls[i].V, Zero)

\* C10, the order inside a step: once the kriging call of a step is made,
\* fit_to_data, obs_re.update_with and mod_re.update_with have each run exactly
\* once, in that order, before it; the kriging call is made once, every
\* kalman_update comes after it, and a step with observations that reaches its
\* end has made the kriging call
C10_StepOrder ==
    LET Count(c) == Cardinality({i \in 1 .. Len(calls) : calls[i] = c})
        At(c)    == CHOOSE i \in 1 .. Len(calls) : calls[i] = c
    IN  /\ (\E i \in 1 .. Len(calls) :
                calls[i] \in {"simple_kriging_data_to_model", "kalman_update"}) =>
               /\ Count("fit_to_data") = 1
               /\ Count("obs_re.update_with") = 1
               /\ Count("mod_re.update_with") = 1
               /\ Count("simple_kriging_data_to_model") = 1
               /\ At("fit_to_data") < At("obs_re.update_with")
               /\ At("obs_re.update_with") < At("mod_re.update_with")
               /\ At("mod_re.update_with") < At("simple_kriging_data_to_model")
               /\ \A i \in 1 .. Len(calls) :
                      calls[i] = "kalman_update" => At("simple_kriging_data_to_model") < i
        /\ (HasObs(t) /\ pc \in {"kalman", "render"}) =>
               Count("simple_kriging_data_to_model") = 1

\* C10, no reset: gamma changes only in fit_to_data, and each estimator
\* changes only in its own update_with, which adds one to its N
C10_NoReset ==
    [][/\ gamma' # gamma => pc = "fit"
       /\ obs_re' # obs_re => (pc = "obs_update" /\ obs_re'.N = obs_re.N + 1)
       /\ mod_re' # mod_re => (pc = "mod_update" /\ mod_re'.N = mod_re.N + 1)]_vars

\* C10: in every step with observations fit_to_data, obs_re.update_with and
\* mod_re.update_with run exactly once each, in that order, before the kriging
\* call, which precedes the first kalman_update of the step; the estimators and
\* gamma are never reset between steps
C10_FixedStepSequence == []C10_StepOrder /\ C10_NoReset

\* a second step with observations has run through its Kalman updates
C10_SecondObservedStepDone ==
    /\ t = 2
    /\ HasObs(1)
    /\ HasObs(2)
    /\ pc = "render"
    /\ Len(kalman_calls) = Cardinality(Grid)
    /\ obs_re.N = 3

\* -------------------------------- properties of the kriging strategies alone

\* C5: every call of a kriging strategy with observations pushes
\* "skdm_cov_cond" exactly once, also when Sigma is singular and the
\* inversion fails
C5_CovCondPushedOnce == (k_pc = "done" /\ k_obs # <<>>) => k_res.pushes = 1

\* C6: simple_kriging_data_to_model with an empty observation list returns
\* K[p] = mu_mod[p] and V[p] = mod_stds[p]^2 at every grid point, raising nothing
C6_EmptyListReturnsBackground ==
    (k_pc = "done" /\ k_fn = "simple" /\ k_obs = <<>>) =>
        /\ k_res.raised = "none"
        /\ k_res.K = k_field
        /\ k_res.V = [p \in Grid |-> Mul(k_mod_stds[p], k_mod_stds[p])]

\* C7: trend_surface_model_kriging completes for any input, the empty
\* observation list included, and returns K[p] = mu_mod[p] at every grid point
C7_TrendSurfaceIdentity ==
    (k_pc = "done" /\ k_fn = "trend_surface") =>
        /\ k_res.raised = "none"
        /\ k_res.K = k_field

\* C9: the mape that universal_kriging_data_to_model returns is
\* (1/N) * sum_i |y_i - gamma * m[ngp_i]|
C9_MapeOverOwnGridPoint ==
    (k_pc = "done" /\ k_fn = "universal" /\ k_res.raised = "none") =>
        LET N == Len(k_obs)
        IN  k_res.mape =
                Div(SumTo([i \in 1 .. N |->
                              AbsNum(Sub(k_obs[i].value,
                                         Mul(k_res.gamma, k_field[k_obs[i].ngp])))], N),
                    Int2Num(N))

====
